---- MODULE Spec2Model ----
\* Model of src/animation_software.py: the keyframe store and interpolation of
\* AnimatedObject, the Timeline playhead, and the cursor / playback / load
\* handlers of AnimationSoftware, with the Qt widgets reduced to the state the
\* handlers read and write (QSpinBox value and range, QGraphicsItem position,
\* QTimer active flag).
EXTENDS Integers, Sequences, FiniteSets, TLC

VARIABLES
  current_frame,     \* AnimationSoftware.current_frame
  max_frames,        \* AnimationSoftware.max_frames
  is_playing,        \* AnimationSoftware.is_playing
  fps,               \* AnimationSoftware.fps
  timeline,          \* Timeline: current_frame, max_frames, bar_x (x of timeline_bar.pos())
  frame_spinbox,     \* frame_spinbox.value()
  fps_spinbox,       \* fps_spinbox.value()
  brightness_slider, \* brightness_slider.value()
  timer,             \* QTimer: active, interval
  objects,           \* Canvas.objects
  selected,          \* index of the selected AnimatedObject in objects, 0 = none
  last_op,           \* history: the handler that ran last
  ev                 \* one call of get_interpolated_state: store, frame, result

vars == <<current_frame, max_frames, is_playing, fps, timeline, frame_spinbox,
          fps_spinbox, brightness_slider, timer, objects, selected, last_op, ev>>

------------------------------------------------------------------------------
\* Bounds of the model (not program constants).

\* most objects the user adds with "+ Add Object"
MaxObjects == 1
\* frames of the stores drawn for the evaluation specification are 0..MaxEvalKey
MaxEvalKey == 3

------------------------------------------------------------------------------
\* Program constants.

DefaultMaxFrames == 300
DefaultFps == 30
frame_width == 10
FrameSpinMin == 0
FpsSpinMin == 1
FpsSpinMax == 60
SliderMin == 0
SliderMax == 200
DefaultBrightness == 100
DefaultX == 400
DefaultY == 300
DefaultSize == 50
DefaultColor == <<100, 150, 255>>

------------------------------------------------------------------------------
\* Numbers. Python floats are modelled as exact rationals n/d (d > 0, reduced).

\* F applied to the value of v, v being evaluated once (a local variable of a
\* handler that is read several times)
Bind(v, F(_)) == CHOOSE r \in {F(u) : u \in {v}} : TRUE

GCD[a \in Nat, b \in Nat] == IF b = 0 THEN a ELSE GCD[b, a % b]

Abs(a) == IF a < 0 THEN -a ELSE a

Norm(n, d) ==
  Bind(<<n, d>>, LAMBDA p :
    LET s == IF p[2] < 0 THEN -1 ELSE 1
        g == GCD[Abs(p[1]), Abs(p[2])]
    IN [n |-> (s * p[1]) \div g, d |-> (s * p[2]) \div g])

R(k) == [n |-> k, d |-> 1]
RAdd(a, b) == Norm(a.n * b.d + b.n * a.d, a.d * b.d)
RSub(a, b) == Norm(a.n * b.d - b.n * a.d, a.d * b.d)
RMul(a, b) == Norm(a.n * b.n, a.d * b.d)
RDiv(a, b) == Norm(a.n * b.d, a.d * b.n)
RLeq(a, b) == a.n * b.d <= b.n * a.d

\* Python int(): truncation toward zero
TruncDiv(n, d) == IF n >= 0 THEN n \div d ELSE -((-n) \div d)
PyInt(a) == Bind(a, LAMBDA v : TruncDiv(v.n, v.d))

Min2(a, b) == IF a <= b THEN a ELSE b
Max2(a, b) == IF a >= b THEN a ELSE b
SetMin(S) == CHOOSE m \in S : \A k \in S : m <= k
SetMax(S) == CHOOSE m \in S : \A k \in S : m >= k

None == [none |-> TRUE]

------------------------------------------------------------------------------
\* AnimatedObject

\* the interpolation with the sum of the two keyframes in place of their
\* difference: before + (after + before) * t
Interpolate_sum(kf_before, kf_after, t) ==
  [x |-> RAdd(kf_before.x, RMul(RAdd(kf_after.x, kf_before.x), t)),
   y |-> RAdd(kf_before.y, RMul(RAdd(kf_after.y, kf_before.y), t)),
   brightness |-> RAdd(kf_before.brightness,
                       RMul(RAdd(kf_after.brightness, kf_before.brightness), t))]

\* lines 70-76: the linear interpolation of the three fields
Interpolate(kf_before, kf_after, t) ==
  [x |-> RAdd(kf_before.x, RMul(RSub(kf_after.x, kf_before.x), t)),
   y |-> RAdd(kf_before.y, RMul(RSub(kf_after.y, kf_before.y), t)),
   brightness |-> RAdd(kf_before.brightness,
                       RMul(RSub(kf_after.brightness, kf_before.brightness), t))]

\* lines 63-76, with frame_before and frame_after found
Between(keyframes, frame, frame_before, frame_after) ==
  Bind(<<keyframes[frame_before], keyframes[frame_after],
         RDiv(R(frame - frame_before), R(frame_after - frame_before))>>,
       LAMBDA a : Interpolate(a[1], a[2], a[3]))

\* get_interpolated_state with the roles of the first and the last keyframe
\* exchanged in the two hold branches
get_interpolated_state_swapped_hold(keyframes, frame) ==
  LET keys == DOMAIN keyframes
      before_frames == {f \in keys : f < frame}
      after_frames == {f \in keys : f > frame}
  IN IF keys = {} THEN None
     ELSE IF frame \in keys THEN keyframes[frame]
     ELSE IF before_frames = {} THEN keyframes[SetMax(keys)]
     ELSE IF after_frames = {} THEN keyframes[SetMin(keys)]
     ELSE Between(keyframes, frame, SetMax(before_frames), SetMin(after_frames))

\* get_interpolated_state without the exact-match branch: a frame that is a key
\* is treated like any other frame and blended from its neighbours
get_interpolated_state_no_exact(keyframes, frame) ==
  LET keys == DOMAIN keyframes
      before_frames == {f \in keys : f < frame}
      after_frames == {f \in keys : f > frame}
  IN IF keys = {} THEN None
     ELSE IF before_frames = {} THEN keyframes[SetMin(keys)]
     ELSE IF after_frames = {} THEN keyframes[SetMax(keys)]
     ELSE Between(keyframes, frame, SetMax(before_frames), SetMin(after_frames))

\* get_interpolated_state that blends the first and the last keyframe of the
\* store instead of the two keyframes next to the frame
get_interpolated_state_farthest(keyframes, frame) ==
  LET keys == DOMAIN keyframes
      before_frames == {f \in keys : f < frame}
      after_frames == {f \in keys : f > frame}
  IN IF keys = {} THEN None
     ELSE IF frame \in keys THEN keyframes[frame]
     ELSE IF before_frames = {} THEN keyframes[SetMin(keys)]
     ELSE IF after_frames = {} THEN keyframes[SetMax(keys)]
     ELSE Between(keyframes, frame, SetMin(before_frames), SetMax(after_frames))

get_interpolated_state(keyframes, frame) ==
  LET keys == DOMAIN keyframes
      before_frames == {f \in keys : f < frame}
      after_frames == {f \in keys : f > frame}
  IN IF keys = {} THEN None
     ELSE IF frame \in keys THEN keyframes[frame]
     ELSE IF before_frames = {} THEN keyframes[SetMin(keys)]
     ELSE IF after_frames = {} THEN keyframes[SetMax(keys)]
     ELSE Between(keyframes, frame, SetMax(before_frames), SetMin(after_frames))

\* QColor(r, g, b): a channel outside 0..255 makes the colour invalid
QColor(r, g, b) ==
  IF r \in 0..255 /\ g \in 0..255 /\ b \in 0..255
  THEN [valid |-> TRUE, rgb |-> <<r, g, b>>]
  ELSE [valid |-> FALSE, rgb |-> <<0, 0, 0>>]

\* int(channel * factor) without the cap at 255
Channel_uncapped(c, factor) == PyInt(RMul(R(c), factor))

\* int(channel * factor), capped at 255
Channel(c, factor) == Bind(PyInt(RMul(R(c), factor)), LAMBDA v : Min2(255, v))

set_brightness(obj, brightness) ==
  Bind(<<obj, brightness, RDiv(brightness, R(100))>>, LAMBDA a :
    Bind(<<Channel(a[1].base_color.rgb[1], a[3]),
           Channel(a[1].base_color.rgb[2], a[3]),
           Channel(a[1].base_color.rgb[3], a[3])>>, LAMBDA ch :
      [a[1] EXCEPT !.brightness = a[2],
                   !.brush = QColor(ch[1], ch[2], ch[3])]))

set_base_color(obj, color) ==
  set_brightness([obj EXCEPT !.base_color = color], obj.brightness)

AnimatedObject(x, y, size) ==
  [x |-> x, y |-> y, size |-> size,
   base_color |-> QColor(DefaultColor[1], DefaultColor[2], DefaultColor[3]),
   brush |-> QColor(DefaultColor[1], DefaultColor[2], DefaultColor[3]),
   keyframes |-> <<>>,
   brightness |-> R(DefaultBrightness)]

\* add_keyframe that keeps the entry a frame already has (first write wins)
obj_add_keyframe_keep(obj, frame) ==
  LET snap == [x |-> obj.x, y |-> obj.y, brightness |-> obj.brightness]
  IN [obj EXCEPT !.keyframes =
        [f \in (DOMAIN obj.keyframes) \cup {frame} |->
           IF f \in DOMAIN obj.keyframes THEN obj.keyframes[f] ELSE snap]]

obj_add_keyframe(obj, frame) ==
  LET snap == [x |-> obj.x, y |-> obj.y, brightness |-> obj.brightness]
  IN [obj EXCEPT !.keyframes =
        [f \in (DOMAIN obj.keyframes) \cup {frame} |->
           IF f = frame THEN snap ELSE obj.keyframes[f]]]

obj_remove_keyframe(obj, frame) ==
  [obj EXCEPT !.keyframes = [f \in (DOMAIN obj.keyframes) \ {frame} |-> obj.keyframes[f]]]

------------------------------------------------------------------------------
\* The state of the application as one record, so that a handler and the
\* handlers it calls (directly or through a Qt signal) compose as functions.

World ==
  [current_frame |-> current_frame, max_frames |-> max_frames,
   is_playing |-> is_playing, fps |-> fps, timeline |-> timeline,
   frame_spinbox |-> frame_spinbox, fps_spinbox |-> fps_spinbox,
   brightness_slider |-> brightness_slider, timer |-> timer,
   objects |-> objects, selected |-> selected]

\* frame_spinbox.setMaximum(self.max_frames - 1) runs once, in setup_ui
FrameSpinMax == DefaultMaxFrames - 1

InitWorld ==
  [current_frame |-> 0, max_frames |-> DefaultMaxFrames,
   is_playing |-> FALSE, fps |-> DefaultFps,
   timeline |-> [current_frame |-> 0, max_frames |-> DefaultMaxFrames, bar_x |-> 0],
   frame_spinbox |-> FrameSpinMin, fps_spinbox |-> DefaultFps,
   brightness_slider |-> DefaultBrightness,
   timer |-> [active |-> FALSE, interval |-> 0],
   objects |-> <<>>, selected |-> 0]

------------------------------------------------------------------------------
\* AnimationSoftware / Timeline: the cursor

\* update_objects_for_frame that puts an object without a state at the origin
\* with normal brightness instead of skipping it
update_objects_for_frame_origin(w, frame) ==
  Bind(w, LAMBDA u :
    [u EXCEPT !.objects =
       [i \in 1..Len(u.objects) |->
          Bind(get_interpolated_state(u.objects[i].keyframes, frame), LAMBDA state :
            IF state = None
            THEN set_brightness([u.objects[i] EXCEPT !.x = R(0), !.y = R(0)],
                                R(DefaultBrightness))
            ELSE set_brightness([u.objects[i] EXCEPT !.x = state.x, !.y = state.y],
                                state.brightness))] \o <<>>])

\* update_objects_for_frame that also records the state it applies as a
\* keyframe of the object at that frame
update_objects_for_frame_autokey(w, frame) ==
  Bind(w, LAMBDA u :
    [u EXCEPT !.objects =
       [i \in 1..Len(u.objects) |->
          Bind(get_interpolated_state(u.objects[i].keyframes, frame), LAMBDA state :
            IF state = None THEN u.objects[i]
            ELSE obj_add_keyframe(
                   set_brightness([u.objects[i] EXCEPT !.x = state.x, !.y = state.y],
                                  state.brightness), frame))] \o <<>>])

\* (the concatenation with <<>> makes the new list a sequence value again)
update_objects_for_frame(w, frame) ==
  Bind(w, LAMBDA u :
    [u EXCEPT !.objects =
       [i \in 1..Len(u.objects) |->
          Bind(get_interpolated_state(u.objects[i].keyframes, frame), LAMBDA state :
            IF state = None THEN u.objects[i]
            ELSE set_brightness([u.objects[i] EXCEPT !.x = state.x, !.y = state.y],
                                state.brightness))] \o <<>>])

RECURSIVE goto_frame(_, _)

\* QSpinBox.setValue: the value is bound to the range; valueChanged (connected
\* to goto_frame) is emitted only when the value changes
frame_spinbox_setValue(w, value) ==
  LET v == Max2(FrameSpinMin, Min2(value, FrameSpinMax))
  IN Bind(w, LAMBDA u :
       IF v = u.frame_spinbox THEN u
       ELSE goto_frame([u EXCEPT !.frame_spinbox = v], v))

on_timeline_frame_changed(w, frame) ==
  update_objects_for_frame(
    frame_spinbox_setValue([w EXCEPT !.current_frame = frame], frame), frame)

\* on_bar_move that rounds the pixel to the nearest frame instead of truncating
on_bar_move_round(w, x_pos) ==
  Bind(w, LAMBDA u :
    LET frame == Max2(0, Min2((2 * x_pos + frame_width) \div (2 * frame_width),
                              u.timeline.max_frames - 1))
    IN on_timeline_frame_changed([u EXCEPT !.timeline.current_frame = frame], frame))

on_bar_move(w, x_pos) ==
  Bind(w, LAMBDA u :
    LET frame == Max2(0, Min2(TruncDiv(x_pos, frame_width), u.timeline.max_frames - 1))
    IN on_timeline_frame_changed([u EXCEPT !.timeline.current_frame = frame], frame))

\* QGraphicsItem.setPos on the timeline bar: nothing happens when the position
\* is the one the bar has; otherwise TimelineBar.itemChange runs the callback
\* before the position is stored (y is forced to 0, so x is the position)
TimelineBar_setPos(w, x) ==
  Bind(w, LAMBDA u :
    IF u.timeline.bar_x = x THEN u
    ELSE Bind(on_bar_move(u, x), LAMBDA w1 :
           IF w1.timeline.bar_x = x THEN w1
           ELSE [w1 EXCEPT !.timeline.bar_x = x]))

\* set_frame that moves the bar without assigning Timeline.current_frame
set_frame_bar_only(w, frame) ==
  TimelineBar_setPos(w, frame * frame_width)

set_frame(w, frame) ==
  TimelineBar_setPos([w EXCEPT !.timeline.current_frame = frame], frame * frame_width)

goto_frame(w, frame) ==
  update_objects_for_frame(set_frame([w EXCEPT !.current_frame = frame], frame), frame)

------------------------------------------------------------------------------
\* AnimationSoftware: playback

\* toggle_playback that pauses without stopping the timer
toggle_playback_keeps_timer(w) ==
  IF w.is_playing
  THEN [w EXCEPT !.is_playing = FALSE]
  ELSE IF w.fps = 0 THEN w
  ELSE [w EXCEPT !.timer = [active |-> TRUE, interval |-> 1000 \div w.fps],
                 !.is_playing = TRUE]

toggle_playback(w) ==
  IF w.is_playing
  THEN [w EXCEPT !.timer.active = FALSE, !.is_playing = FALSE]
  ELSE IF w.fps = 0 THEN w   \* 1000 // 0 raises before anything is assigned
  ELSE [w EXCEPT !.timer = [active |-> TRUE, interval |-> 1000 \div w.fps],
                 !.is_playing = TRUE]

\* stop_playback without the rewind
stop_playback_no_rewind(w) ==
  [w EXCEPT !.timer.active = FALSE, !.is_playing = FALSE]

stop_playback(w) ==
  goto_frame([w EXCEPT !.timer.active = FALSE, !.is_playing = FALSE], 0)

next_frame(w) ==
  LET n == w.current_frame + 1
      f == IF n >= w.max_frames THEN 0 ELSE n
  IN goto_frame([w EXCEPT !.current_frame = f], f)

\* change_fps that restarts the timer with the new interval whether the
\* animation is playing or not
change_fps_starts_timer(w, new_fps) ==
  [w EXCEPT !.fps = new_fps,
            !.timer = [active |-> TRUE, interval |-> 1000 \div new_fps]]

change_fps(w, new_fps) ==
  IF w.is_playing
  THEN [w EXCEPT !.fps = new_fps, !.timer.interval = 1000 \div new_fps]
  ELSE [w EXCEPT !.fps = new_fps]

\* QSpinBox.setValue on fps_spinbox (range 1..60, valueChanged -> change_fps)
fps_spinbox_setValue(w, value) ==
  LET v == Max2(FpsSpinMin, Min2(value, FpsSpinMax))
  IN IF v = w.fps_spinbox THEN w
     ELSE change_fps([w EXCEPT !.fps_spinbox = v], v)

------------------------------------------------------------------------------
\* Documents. A JSON object is a record: a field the document lacks is a field
\* the record lacks. Strings are sequences of one-character strings.

DecDigits == <<"0", "1", "2", "3", "4", "5", "6", "7", "8", "9">>
HexDigits == DecDigits \o <<"a", "b", "c", "d", "e", "f">>

IsDecDigit(c) == \E i \in 1..Len(DecDigits) : DecDigits[i] = c
IsHexDigit(c) == \E i \in 1..Len(HexDigits) : HexDigits[i] = c
HexVal(c) == (CHOOSE i \in 1..Len(HexDigits) : HexDigits[i] = c) - 1

RECURSIVE DecVal(_, _)
DecVal(s, acc) ==
  IF s = <<>> THEN acc ELSE DecVal(Tail(s), 10 * acc + HexVal(Head(s)))

\* Python int(str): an optional sign and decimal digits, anything else raises
IntBody(s) == IF s # <<>> /\ Head(s) = "-" THEN Tail(s) ELSE s
IsIntStr(s) ==
  /\ IntBody(s) # <<>>
  /\ \A i \in 1..Len(IntBody(s)) : IsDecDigit(IntBody(s)[i])
PyIntStr(s) ==
  IF Head(s) = "-" THEN 0 - DecVal(IntBody(s), 0) ELSE DecVal(s, 0)

\* QColor("#rrggbb"); any other string gives an invalid colour (no exception)
QColorFromName(s) ==
  IF Len(s) = 7 /\ s[1] = "#" /\ \A i \in 2..7 : IsHexDigit(s[i])
  THEN QColor(16 * HexVal(s[2]) + HexVal(s[3]),
              16 * HexVal(s[4]) + HexVal(s[5]),
              16 * HexVal(s[6]) + HexVal(s[7]))
  ELSE [valid |-> FALSE, rgb |-> <<0, 0, 0>>]

Get(d, field, default) == IF field \in DOMAIN d THEN d[field] ELSE default

\* {int(k): v for k, v in obj_data.get('keyframes', {}).items()}; the items of
\* the JSON object are a sequence of <<key string, state>>, a later item wins
RECURSIVE ParseKeyframes(_, _)
ParseKeyframes(items, acc) ==
  IF items = <<>> THEN acc
  ELSE LET k == PyIntStr(Head(items)[1])
       IN ParseKeyframes(Tail(items),
            [f \in (DOMAIN acc) \cup {k} |->
               IF f = k THEN Head(items)[2] ELSE acc[f]])

\* the loop body of load_animation raises for this obj_data
ObjDataRaises(d) ==
  \/ ~({"x", "y", "size", "color"} \subseteq DOMAIN d)
  \/ \E i \in 1..Len(Get(d, "keyframes", <<>>)) :
       ~IsIntStr(Get(d, "keyframes", <<>>)[i][1])

LoadObject(d) ==
  LET o1 == set_base_color(AnimatedObject(d.x, d.y, d.size), QColorFromName(d.color))
  IN [o1 EXCEPT !.brightness = Get(d, "brightness", R(DefaultBrightness)),
                !.keyframes = ParseKeyframes(Get(d, "keyframes", <<>>), <<>>)]

\* Canvas.clear_all: the objects leave the scene, and with them the selection
canvas_clear_all(w) == [w EXCEPT !.objects = <<>>, !.selected = 0]

\* load_animation after the file was chosen and json.load succeeded; an
\* exception in the loop leaves what was done before it (except: message box)
load_animation(w, data) ==
  LET objs == Get(data, "objects", <<>>)
      bad == {i \in 1..Len(objs) : ObjDataRaises(objs[i])}
      n_ok == IF bad = {} THEN Len(objs) ELSE SetMin(bad) - 1
      w1 == canvas_clear_all(w)
      w2 == [w1 EXCEPT !.max_frames = Get(data, "max_frames", DefaultMaxFrames),
                       !.fps = Get(data, "fps", DefaultFps)]
      w3 == fps_spinbox_setValue(w2, w2.fps)
      w4 == [w3 EXCEPT !.objects = [i \in 1..n_ok |-> LoadObject(objs[i])]]
  IN IF bad = {} THEN goto_frame(w4, 0) ELSE w4

LoadFails(data) ==
  \E i \in 1..Len(Get(data, "objects", <<>>)) : ObjDataRaises(data.objects[i])

\* json.dump of an int dictionary key: its decimal string
RECURSIVE NatToStr(_)
NatToStr(n) ==
  IF n < 10 THEN <<DecDigits[n + 1]>>
  ELSE NatToStr(n \div 10) \o <<DecDigits[(n % 10) + 1]>>
IntToStr(k) == IF k < 0 THEN <<"-">> \o NatToStr(0 - k) ELSE NatToStr(k)

\* QColor.name(): "#rrggbb" in lower-case hexadecimal ("#000000" for an
\* invalid colour)
ColorName(color) ==
  <<"#">> \o
  <<HexDigits[(color.rgb[1] \div 16) + 1], HexDigits[(color.rgb[1] % 16) + 1],
    HexDigits[(color.rgb[2] \div 16) + 1], HexDigits[(color.rgb[2] % 16) + 1],
    HexDigits[(color.rgb[3] \div 16) + 1], HexDigits[(color.rgb[3] % 16) + 1]>>

\* the items of obj.keyframes as json.dump writes them (here by ascending key;
\* the keys of a store are distinct, so the order has no effect on a load)
RECURSIVE KeyframeItems(_)
KeyframeItems(keyframes) ==
  IF DOMAIN keyframes = {} THEN <<>>
  ELSE LET k == SetMin(DOMAIN keyframes)
       IN << <<IntToStr(k), keyframes[k]>> >> \o
          KeyframeItems([f \in (DOMAIN keyframes) \ {k} |-> keyframes[f]])

\* save_animation that leaves the fps out of the document
save_animation_without_fps(w) ==
  [max_frames |-> w.max_frames,
   objects |-> [i \in 1..Len(w.objects) |->
                  [x |-> w.objects[i].x, y |-> w.objects[i].y,
                   size |-> w.objects[i].size,
                   color |-> ColorName(w.objects[i].base_color),
                   brightness |-> w.objects[i].brightness,
                   keyframes |-> KeyframeItems(w.objects[i].keyframes)]] \o <<>>]

\* the document save_animation writes
save_animation(w) ==
  [max_frames |-> w.max_frames, fps |-> w.fps,
   objects |-> [i \in 1..Len(w.objects) |->
                  [x |-> w.objects[i].x, y |-> w.objects[i].y,
                   size |-> w.objects[i].size,
                   color |-> ColorName(w.objects[i].base_color),
                   brightness |-> w.objects[i].brightness,
                   keyframes |-> KeyframeItems(w.objects[i].keyframes)]] \o <<>>]

------------------------------------------------------------------------------
\* Inputs of the environment, drawn from small sets.

KS(x, y, b) == [x |-> R(x), y |-> R(y), brightness |-> R(b)]
Red == <<"#", "f", "f", "0", "0", "0", "0">>
Gold == <<"#", "f", "f", "d", "7", "0", "0">>

\* max_frames above the 300 the timeline was built with, keys beyond frame 299
DocLong ==
  [max_frames |-> 302,
   objects |-> << [x |-> R(10), y |-> R(20), size |-> R(50), color |-> Red,
                   brightness |-> R(100),
                   keyframes |-> << << <<"1">>, KS(0, 0, 100) >>,
                                    << <<"3", "0", "0">>, KS(300, 0, 200) >> >>] >>]

\* max_frames below 300, two animated objects and one without keyframes
DocShort ==
  [max_frames |-> 4, fps |-> 60,
   objects |-> << [x |-> R(10), y |-> R(20), size |-> R(50), color |-> Red,
                   brightness |-> R(100),
                   keyframes |-> << << <<"1">>, KS(0, 0, 100) >>,
                                    << <<"3">>, KS(100, 50, 0) >> >>],
                  [x |-> R(10), y |-> R(20), size |-> R(50), color |-> Red,
                   keyframes |-> << << <<"2">>, KS(7, 7, 50) >> >>],
                  [x |-> R(5), y |-> R(6), size |-> R(50), color |-> Red,
                   brightness |-> R(150)] >>]

\* the second object lacks the required field size
DocBadField ==
  [max_frames |-> 4,
   objects |-> << [x |-> R(10), y |-> R(20), size |-> R(50), color |-> Red],
                  [x |-> R(10), y |-> R(20), color |-> Red] >>]

\* a keyframe key of the first object is not an integer
DocBadKey ==
  [fps |-> 60,
   objects |-> << [x |-> R(10), y |-> R(20), size |-> R(50), color |-> Red,
                   keyframes |-> << << <<"1">>, KS(0, 0, 100) >>,
                                    << <<"1", "a">>, KS(5, 5, 100) >> >>] >>]

Docs == {DocLong, DocShort, DocBadField, DocBadKey}

\* pixel x of a playhead drag
DragPixels == {-5, 15, 45, 3005}
\* values the user enters in the frame spinbox (the spinbox bounds them)
SpinInputs == {-1, 0, 2, 350}
\* values the user enters in the FPS spinbox
FpsInputs == {60}
\* brightness slider positions
SliderInputs == {100, 200}
\* places the user drags an object to
MovePositions == {<<100, 50>>}
\* colours picked in the colour dialog
ColorChoices == {QColor(255, 0, 0)}
\* frames at which the user presses "Add Keyframe" or "Remove Keyframe" (not a
\* key of a document above, so that the stores stay finitely many; frame 4 is
\* inside the default range and just outside the range of the short documents)
AuthorFrames == {4}
\* The user operates the window only while the cursor is on one of these
\* frames (the ends of the range and the frames the drags and spinbox entries
\* above lead to); on every other frame only the playback timer fires.
InteractFrames == {0, 1, 2, 4, 299, 300}

Idle == [idle |-> TRUE]

------------------------------------------------------------------------------
\* Specification of the application

\* the handler's result w becomes the next state
Set(w, op) ==
  \E n \in {w} :
    /\ current_frame' = n.current_frame
    /\ max_frames' = n.max_frames
    /\ is_playing' = n.is_playing
    /\ fps' = n.fps
    /\ timeline' = n.timeline
    /\ frame_spinbox' = n.frame_spinbox
    /\ fps_spinbox' = n.fps_spinbox
    /\ brightness_slider' = n.brightness_slider
    /\ timer' = n.timer
    /\ objects' = n.objects
    /\ selected' = n.selected
    /\ last_op' = op
    /\ UNCHANGED ev

Init ==
  /\ current_frame = InitWorld.current_frame
  /\ max_frames = InitWorld.max_frames
  /\ is_playing = InitWorld.is_playing
  /\ fps = InitWorld.fps
  /\ timeline = InitWorld.timeline
  /\ frame_spinbox = InitWorld.frame_spinbox
  /\ fps_spinbox = InitWorld.fps_spinbox
  /\ brightness_slider = InitWorld.brightness_slider
  /\ timer = InitWorld.timer
  /\ objects = InitWorld.objects
  /\ selected = InitWorld.selected
  /\ last_op = "init"
  /\ ev = Idle

\* AnimationSoftware.add_object -> Canvas.add_object
add_object(w) ==
  [w EXCEPT !.objects = Append(w.objects, AnimatedObject(R(DefaultX), R(DefaultY), R(DefaultSize)))]

UserActs == current_frame \in InteractFrames

AddObject ==
  /\ UserActs
  /\ Len(objects) < MaxObjects
  /\ Set(add_object(World), "add_object")

\* the user clicks an object (i > 0) or the empty canvas (i = 0)
SelectObject(i) ==
  /\ UserActs
  /\ i # selected
  /\ Set([World EXCEPT !.selected = i], "select")

\* the user drags the selected object (ItemIsMovable)
MoveObject(p) ==
  /\ UserActs
  /\ selected # 0
  /\ Set([World EXCEPT !.objects[selected].x = R(p[1]), !.objects[selected].y = R(p[2])],
         "move_object")

change_color(w, color) ==
  IF w.selected # 0 /\ color.valid
  THEN [w EXCEPT !.objects[w.selected] = set_base_color(w.objects[w.selected], color)]
  ELSE w

ChangeColor(c) ==
  /\ UserActs
  /\ Set(change_color(World, c), "change_color")

\* QSlider.valueChanged -> change_brightness, emitted when the value changes
change_brightness(w, value) ==
  IF w.selected # 0
  THEN [w EXCEPT !.objects[w.selected] = set_brightness(w.objects[w.selected], R(value))]
  ELSE w

ChangeBrightness(v) ==
  /\ UserActs
  /\ v \in SliderMin..SliderMax
  /\ v # brightness_slider
  /\ Set(change_brightness([World EXCEPT !.brightness_slider = v], v), "change_brightness")

\* clear_all, answered Yes
ClearAll ==
  /\ UserActs
  /\ objects # <<>>
  /\ Set(canvas_clear_all(World), "clear_all")

add_keyframe(w) ==
  IF w.selected # 0
  THEN [w EXCEPT !.objects[w.selected] = obj_add_keyframe(w.objects[w.selected], w.current_frame)]
  ELSE w

AddKeyframe ==
  /\ current_frame \in AuthorFrames
  /\ Set(add_keyframe(World),
         IF selected # 0 /\ current_frame \in DOMAIN objects[selected].keyframes
         THEN "add_keyframe_replace" ELSE "add_keyframe")

\* remove_keyframe that removes the last keyframe of the selected object when
\* there is none at the cursor
remove_keyframe_last(w) ==
  IF w.selected = 0 \/ DOMAIN w.objects[w.selected].keyframes = {} THEN w
  ELSE IF w.current_frame \in DOMAIN w.objects[w.selected].keyframes
  THEN [w EXCEPT !.objects[w.selected] = obj_remove_keyframe(w.objects[w.selected], w.current_frame)]
  ELSE [w EXCEPT !.objects[w.selected] =
          obj_remove_keyframe(w.objects[w.selected],
                              SetMax(DOMAIN w.objects[w.selected].keyframes))]

remove_keyframe(w) ==
  IF w.selected # 0 /\ w.current_frame \in DOMAIN w.objects[w.selected].keyframes
  THEN [w EXCEPT !.objects[w.selected] = obj_remove_keyframe(w.objects[w.selected], w.current_frame)]
  ELSE w

RemoveKeyframe ==
  /\ current_frame \in AuthorFrames
  /\ Set(remove_keyframe(World), "remove_keyframe")

\* the user enters v in the frame spinbox; no signal, hence no handler, when
\* the bounded value is the one the spinbox shows
SpinboxGoto(v) ==
  /\ UserActs
  /\ Max2(FrameSpinMin, Min2(v, FrameSpinMax)) # frame_spinbox
  /\ Set(frame_spinbox_setValue(World, v), "spinbox")

\* the user drags the playhead to pixel x (a mouse move to another position)
DragBar(x) ==
  /\ UserActs
  /\ x # timeline.bar_x
  /\ Set(TimelineBar_setPos(World, x), "drag")

TogglePlayback ==
  /\ UserActs
  /\ Set(toggle_playback(World), "toggle_playback")

StopPlayback ==
  /\ UserActs
  /\ Set(stop_playback(World), "stop_playback")

\* QTimer.timeout -> next_frame
Tick ==
  /\ timer.active
  /\ Set(next_frame(World), "next_frame")

\* the user enters v in the FPS spinbox
FpsSpinbox(v) ==
  /\ UserActs
  /\ Max2(FpsSpinMin, Min2(v, FpsSpinMax)) # fps_spinbox
  /\ Set(fps_spinbox_setValue(World, v), "change_fps")

Load(data) ==
  /\ UserActs
  /\ Set(load_animation(World, data), "load_animation")

\* save_animation with a file chosen: the document is written, the window is
\* left as it is
Save ==
  /\ UserActs
  /\ Set(World, "save_animation")

\* the user saves the animation and loads the file just written
SaveLoad ==
  /\ UserActs
  /\ Set(load_animation(World, save_animation(World)), "save_load")

Next ==
  \/ AddObject
  \/ \E i \in 0..Len(objects) : SelectObject(i)
  \/ ClearAll
  \/ AddKeyframe
  \/ RemoveKeyframe
  \/ \E v \in SpinInputs : SpinboxGoto(v)
  \/ \E x \in DragPixels : DragBar(x)
  \/ TogglePlayback
  \/ StopPlayback
  \/ Tick
  \/ \E v \in FpsInputs : FpsSpinbox(v)
  \/ \E data \in Docs : Load(data)

Spec == Init /\ [][Next]_vars

------------------------------------------------------------------------------
\* Specification of playback left alone: a document is loaded, Play is
\* pressed, and from then on only the timer fires. QTimer keeps firing while
\* it is active, hence weak fairness on the tick.

DocDefault == [objects |-> <<>>]
PlayDocs == {DocDefault, DocShort, DocLong}

PlayInit ==
  \E data \in PlayDocs :
    LET w == toggle_playback(load_animation(InitWorld, data))
    IN /\ current_frame = w.current_frame
       /\ max_frames = w.max_frames
       /\ is_playing = w.is_playing
       /\ fps = w.fps
       /\ timeline = w.timeline
       /\ frame_spinbox = w.frame_spinbox
       /\ fps_spinbox = w.fps_spinbox
       /\ brightness_slider = w.brightness_slider
       /\ timer = w.timer
       /\ objects = w.objects
       /\ selected = w.selected
       /\ last_op = "toggle_playback"
       /\ ev = Idle

PlayNext == Tick

PlaySpec == PlayInit /\ [][PlayNext]_vars /\ WF_vars(Tick)

------------------------------------------------------------------------------
\* Specification of an editing session: a short document with one animated
\* object has been loaded, and the user selects, drags, colours, dims, keys,
\* scrubs and plays it.

EditDoc ==
  [max_frames |-> 4,
   objects |-> << [x |-> R(10), y |-> R(20), size |-> R(50), color |-> Gold,
                   brightness |-> R(100),
                   keyframes |-> << << <<"1">>, KS(0, 0, 100) >>,
                                    << <<"3">>, KS(100, 50, 0) >> >>] >>]

EditSpinInputs == {0, 2}
EditDragPixels == {15, 45}

EditInit ==
  LET w == load_animation(InitWorld, EditDoc)
  IN /\ current_frame = w.current_frame
     /\ max_frames = w.max_frames
     /\ is_playing = w.is_playing
     /\ fps = w.fps
     /\ timeline = w.timeline
     /\ frame_spinbox = w.frame_spinbox
     /\ fps_spinbox = w.fps_spinbox
     /\ brightness_slider = w.brightness_slider
     /\ timer = w.timer
     /\ objects = w.objects
     /\ selected = w.selected
     /\ last_op = "load_animation"
     /\ ev = Idle

EditNext ==
  \/ \E i \in 0..Len(objects) : SelectObject(i)
  \/ \E p \in MovePositions : MoveObject(p)
  \/ \E c \in ColorChoices : ChangeColor(c)
  \/ \E v \in SliderInputs : ChangeBrightness(v)
  \/ AddKeyframe
  \/ RemoveKeyframe
  \/ \E v \in EditSpinInputs : SpinboxGoto(v)
  \/ \E x \in EditDragPixels : DragBar(x)
  \/ TogglePlayback
  \/ StopPlayback
  \/ Tick
  \/ \E v \in FpsInputs : FpsSpinbox(v)
  \/ ClearAll
  \/ Save
  \/ SaveLoad
  \/ Load(EditDoc)

EditSpec == EditInit /\ [][EditNext]_vars

------------------------------------------------------------------------------
\* Specification of one evaluation: a keyframe store and a frame are drawn,
\* get_interpolated_state is called on them.

Pending == [pending |-> TRUE]
EvalKeys == 0..MaxEvalKey
EvalFrames == -1..(MaxEvalKey + 1)
EvalStates == {KS(0, 0, 100), KS(100, 50, 0), KS(30, 0, 200)}
EvalStores == UNION {[K -> EvalStates] : K \in SUBSET EvalKeys}

EvalInit ==
  /\ current_frame = InitWorld.current_frame
  /\ max_frames = InitWorld.max_frames
  /\ is_playing = InitWorld.is_playing
  /\ fps = InitWorld.fps
  /\ timeline = InitWorld.timeline
  /\ frame_spinbox = InitWorld.frame_spinbox
  /\ fps_spinbox = InitWorld.fps_spinbox
  /\ brightness_slider = InitWorld.brightness_slider
  /\ timer = InitWorld.timer
  /\ objects = InitWorld.objects
  /\ selected = InitWorld.selected
  /\ last_op = "init"
  /\ ev \in [store : EvalStores, frame : EvalFrames, result : {Pending}]

Evaluate ==
  /\ ev.result = Pending
  /\ ev' = [ev EXCEPT !.result = get_interpolated_state(ev.store, ev.frame)]
  /\ UNCHANGED <<current_frame, max_frames, is_playing, fps, timeline, frame_spinbox,
                 fps_spinbox, brightness_slider, timer, objects, selected, last_op>>

EvalNext == Evaluate

EvalSpec == EvalInit /\ [][EvalNext]_vars

------------------------------------------------------------------------------
\* Specification of one call of set_brightness: a base colour and a brightness
\* are drawn (slider values, interpolated values, values of a document below 0
\* and above 200), set_brightness is called on an object of that colour.

BaseColors ==
  {<<100, 150, 255>>, <<255, 0, 0>>, <<255, 215, 0>>, <<1, 2, 3>>, <<0, 0, 0>>,
   <<255, 255, 255>>}
BrightValues ==
  {R(-50), R(-1), R(0), R(1), R(50), R(99), R(100), R(101), R(150), R(200),
   R(250), R(1000), [n |-> 100, d |-> 3], [n |-> 401, d |-> 2]}

BrightInit ==
  /\ current_frame = InitWorld.current_frame
  /\ max_frames = InitWorld.max_frames
  /\ is_playing = InitWorld.is_playing
  /\ fps = InitWorld.fps
  /\ timeline = InitWorld.timeline
  /\ frame_spinbox = InitWorld.frame_spinbox
  /\ fps_spinbox = InitWorld.fps_spinbox
  /\ brightness_slider = InitWorld.brightness_slider
  /\ timer = InitWorld.timer
  /\ objects = InitWorld.objects
  /\ selected = InitWorld.selected
  /\ last_op = "init"
  /\ ev \in [base : BaseColors, brightness : BrightValues, brush : {Pending}]

SetBrightness ==
  /\ ev.brush = Pending
  /\ ev' = [ev EXCEPT !.brush =
              set_brightness(
                [AnimatedObject(R(DefaultX), R(DefaultY), R(DefaultSize))
                   EXCEPT !.base_color = QColor(ev.base[1], ev.base[2], ev.base[3])],
                ev.brightness).brush]
  /\ UNCHANGED <<current_frame, max_frames, is_playing, fps, timeline, frame_spinbox,
                 fps_spinbox, brightness_slider, timer, objects, selected, last_op>>

BrightNext == SetBrightness

BrightSpec == BrightInit /\ [][BrightNext]_vars

------------------------------------------------------------------------------
\* Properties

Clamp(v, lo, hi) == Max2(lo, Min2(v, hi))

\* the rendered position and brightness of an object
Rendered(obj) == [x |-> obj.x, y |-> obj.y, brightness |-> obj.brightness]

\* every object with keyframes shows the state its store gives at frame f
ObjectsShowFrame(f) ==
  \A i \in 1..Len(objects) :
    DOMAIN objects[i].keyframes # {} =>
      Rendered(objects[i]) = get_interpolated_state(objects[i].keyframes, f)

\* round to the nearest frame, halves up
RoundDiv(n, d) == (2 * n + d) \div (2 * d)

\* C1 (as claimed): in every reachable state the cursor is a frame of the
\* document, 0 <= current_frame < max_frames.
C1_CursorInRange == 0 <= current_frame /\ current_frame < max_frames

\* C2 (as claimed): a playback tick taken at a cursor c in [0, max_frames)
\* leaves the cursor at (c + 1) mod max_frames, whatever max_frames is.
C2_TickAdvances ==
  [][(last_op' = "next_frame" /\ current_frame \in 0..(max_frames - 1))
       => current_frame' = (current_frame + 1) % max_frames]_vars

\* C3 (as claimed): playback left alone loops: the cursor is at frame 0 again
\* and again, and the last frame of the document is visited.
C3_PlaybackLoops ==
  /\ []<>(current_frame = 0)
  /\ <>(current_frame = max_frames - 1)

\* C4 (as claimed): goto_frame(f), here called by the frame spinbox with the
\* value f it holds, leaves the cursor at max(0, min(f, max_frames - 1)).
C4_GotoClamps ==
  [][\A v \in SpinInputs :
       SpinboxGoto(v) =>
         current_frame' = Clamp(Clamp(v, FrameSpinMin, FrameSpinMax), 0, max_frames - 1)]_vars

\* C5 (as claimed): when a frame-changing handler has run, every object with
\* keyframes shows the state of its store at the cursor.
C5_ObjectsFollowCursor ==
  last_op \in {"spinbox", "drag", "next_frame", "stop_playback", "load_animation"}
    => ObjectsShowFrame(current_frame)

C7_FailedLoadKeepsScene ==
  [][\A data \in Docs :
       (Load(data) /\ LoadFails(data)) =>
         /\ objects' = objects
         /\ max_frames' = max_frames
         /\ fps' = fps]_vars

\* C8: after stop_playback the window is not playing, the timer is inactive,
\* the cursor is 0 and every object with keyframes shows its state at frame 0.
C8_StopRewinds ==
  last_op = "stop_playback" =>
    /\ ~is_playing
    /\ ~timer.active
    /\ current_frame = 0
    /\ ObjectsShowFrame(0)

\* C8 witness: stop was pressed after playback had run, with an animated object
C8_Witness ==
  /\ last_op = "stop_playback"
  /\ timer.interval > 0
  /\ \E i \in 1..Len(objects) : Cardinality(DOMAIN objects[i].keyframes) >= 2

\* C9: evaluating a store at one of its keys returns the state stored there.
C9_ExactKey ==
  (ev # Idle /\ ev.result # Pending /\ ev.frame \in DOMAIN ev.store)
    => ev.result = ev.store[ev.frame]

\* C9 witness: the frame is a key with a key on either side
C9_Witness ==
  /\ ev # Idle
  /\ ev.result # Pending
  /\ ev.frame \in DOMAIN ev.store
  /\ \E a, b \in DOMAIN ev.store : a < ev.frame /\ ev.frame < b
  /\ ev.result = ev.store[ev.frame]

\* C10: evaluating a non-empty store below its first key returns the state of
\* the first key, above its last key the state of the last key.
C10_Hold ==
  (ev # Idle /\ ev.result # Pending /\ DOMAIN ev.store # {}) =>
    /\ (\A k \in DOMAIN ev.store : ev.frame < k)
         => ev.result = ev.store[SetMin(DOMAIN ev.store)]
    /\ (\A k \in DOMAIN ev.store : ev.frame > k)
         => ev.result = ev.store[SetMax(DOMAIN ev.store)]

\* C10 witness: a frame above every key of a store whose first and last state differ
C10_Witness ==
  /\ ev # Idle
  /\ ev.result # Pending
  /\ Cardinality(DOMAIN ev.store) >= 2
  /\ \A k \in DOMAIN ev.store : ev.frame > k
  /\ ev.store[SetMin(DOMAIN ev.store)] # ev.store[SetMax(DOMAIN ev.store)]
  /\ ev.result = ev.store[SetMax(DOMAIN ev.store)]

\* the rational r is p + (q - p) * num / den (compared by cross-multiplication)
IsLerp(r, p, q, num, den) ==
  r.n * (p.d * q.d * den) = r.d * (p.n * q.d * den + (q.n * p.d - p.n * q.d) * num)

\* C11: evaluating a store at a frame that is not a key and lies between two
\* keys blends, for x, y and brightness separately, the greatest key below the
\* frame and the smallest key above it:
\* before + (after - before) * (f - frame_before) / (frame_after - frame_before).
C11_NearestNeighbours ==
  (/\ ev # Idle /\ ev.result # Pending
   /\ ev.frame \notin DOMAIN ev.store
   /\ \E a, b \in DOMAIN ev.store : a < ev.frame /\ ev.frame < b)
  => LET b == SetMax({k \in DOMAIN ev.store : k < ev.frame})
         a == SetMin({k \in DOMAIN ev.store : k > ev.frame})
     IN /\ ev.result # None
        /\ IsLerp(ev.result.x, ev.store[b].x, ev.store[a].x, ev.frame - b, a - b)
        /\ IsLerp(ev.result.y, ev.store[b].y, ev.store[a].y, ev.frame - b, a - b)
        /\ IsLerp(ev.result.brightness, ev.store[b].brightness,
                  ev.store[a].brightness, ev.frame - b, a - b)

\* C11 witness: the frame has two keys below it, the farther one with another
\* state, and the result is the blend of the nearer one and the key above
C11_Witness ==
  /\ ev # Idle
  /\ ev.result # Pending
  /\ ev.frame \notin DOMAIN ev.store
  /\ \E k0, k1, k2 \in DOMAIN ev.store :
       /\ k0 < k1 /\ k1 < ev.frame /\ ev.frame < k2
       /\ k1 = SetMax({k \in DOMAIN ev.store : k < ev.frame})
       /\ k2 = SetMin({k \in DOMAIN ev.store : k > ev.frame})
       /\ ev.store[k0] # ev.store[k1]
       /\ ev.store[k1] # ev.store[k2]
       /\ ev.result # ev.store[k1]
       /\ IsLerp(ev.result.x, ev.store[k1].x, ev.store[k2].x, ev.frame - k1, k2 - k1)

\* C12: a store without keyframes gives no state at any frame, and a scrub
\* (spinbox or drag), a playback tick, a stop and the scrub at the end of a load
\* leave an object without keyframes as it was: the same position, brightness
\* and colour (after a load, the position and brightness of the document).
C12_EmptyStoreUntouched ==
  /\ [](\A f \in EvalFrames : get_interpolated_state(<<>>, f) = None)
  /\ [][last_op' \in {"spinbox", "drag", "next_frame", "stop_playback"} =>
         /\ Len(objects') = Len(objects)
         /\ \A i \in 1..Len(objects) :
              DOMAIN objects[i].keyframes = {} => objects'[i] = objects[i]]_vars
  /\ [][\A data \in Docs :
         (last_op' = "load_animation" /\ ~LoadFails(data) /\ Load(data)) =>
           \A i \in 1..Len(objects') :
             DOMAIN objects'[i].keyframes = {} =>
               /\ objects'[i].x = data.objects[i].x
               /\ objects'[i].y = data.objects[i].y
               /\ objects'[i].brightness =
                    Get(data.objects[i], "brightness", R(DefaultBrightness))]_vars

\* C12 witness: a tick has run on a scene with an animated object and an object
\* without keyframes that is where the document placed it
C12_Witness ==
  /\ last_op = "next_frame"
  /\ current_frame = 2
  /\ \E i, j \in 1..Len(objects) :
       /\ DOMAIN objects[i].keyframes = {}
       /\ objects[i].x = R(5) /\ objects[i].y = R(6) /\ objects[i].brightness = R(150)
       /\ DOMAIN objects[j].keyframes # {}
       /\ Rendered(objects[j]) = get_interpolated_state(objects[j].keyframes, 2)

\* C13: "Remove Keyframe" when the selected object has no keyframe at the
\* cursor, and "Add Keyframe", "Remove Keyframe" or "Change Color" when no
\* object is selected, leave every object (keyframe store, position,
\* brightness, colours) and the cursor as they were.
C13_IgnoredActions ==
  [][(\/ /\ last_op' = "remove_keyframe"
         /\ \/ selected = 0
            \/ current_frame \notin DOMAIN objects[selected].keyframes
      \/ /\ last_op' \in {"add_keyframe", "change_color"}
         /\ selected = 0)
     => /\ objects' = objects
        /\ current_frame' = current_frame
        /\ selected' = selected]_vars

\* C13 witness: "Remove Keyframe" was pressed at frame 4 with an object
\* selected that has keyframes, none of them at frame 4
C13_Witness ==
  /\ last_op = "remove_keyframe"
  /\ selected # 0
  /\ current_frame = 4
  /\ DOMAIN objects[selected].keyframes = {1, 3}

\* the keyframe stores of the scene
Stores == [i \in 1..Len(objects) |-> objects[i].keyframes]

\* C14: a handler other than add_keyframe, remove_keyframe, clear_all and
\* load_animation (a scrub, a tick, play / pause, stop, a drag of an object,
\* the brightness slider, the colour dialog, the FPS spinbox, save) leaves
\* every keyframe store as it was, and add_keyframe and remove_keyframe change
\* the store of the selected object at the cursor frame only.
C14_StoresChangeOnlyByAuthoring ==
  [][/\ last_op' \notin {"add_keyframe", "add_keyframe_replace", "remove_keyframe",
                         "clear_all", "load_animation"}
        => Stores' = Stores
     /\ last_op' \in {"add_keyframe", "add_keyframe_replace", "remove_keyframe"}
        => /\ Len(objects') = Len(objects)
           /\ \A i \in 1..Len(objects) :
                \A k \in (DOMAIN objects[i].keyframes) \cup (DOMAIN objects'[i].keyframes) :
                  (i # selected \/ k # current_frame) =>
                    /\ k \in DOMAIN objects[i].keyframes
                    /\ k \in DOMAIN objects'[i].keyframes
                    /\ objects'[i].keyframes[k] = objects[i].keyframes[k]]_vars

\* C14 witness: the slider has set the brightness of an object to 200 while its
\* keyframes still hold the brightness they were stored with
C14_Witness ==
  /\ last_op = "change_brightness"
  /\ selected # 0
  /\ objects[selected].brightness = R(200)
  /\ 1 \in DOMAIN objects[selected].keyframes
  /\ objects[selected].keyframes[1] = KS(0, 0, 100)

C16_LoadSetsRange ==
  [][\A data \in Docs :
       (last_op' = "load_animation" /\ ~LoadFails(data) /\ Load(data)) =>
         /\ max_frames' = Get(data, "max_frames", DefaultMaxFrames)
         /\ fps' = Get(data, "fps", DefaultFps)
         /\ timeline'.max_frames = max_frames'
         /\ current_frame' = 0]_vars

C18_FpsOnly ==
  [][last_op' = "change_fps" =>
       /\ fps' = fps_spinbox'
       /\ current_frame' = current_frame
       /\ max_frames' = max_frames
       /\ is_playing' = is_playing
       /\ timer'.active = timer.active
       /\ timer'.interval = (IF is_playing THEN 1000 \div fps' ELSE timer.interval)
       /\ timeline' = timeline
       /\ frame_spinbox' = frame_spinbox
       /\ objects' = objects
       /\ selected' = selected]_vars

\* C18 witness: the FPS was changed to 60 during playback, past frame 0, with
\* an animated object in the scene
C18_Witness ==
  /\ last_op = "change_fps"
  /\ is_playing
  /\ fps = 60
  /\ timer.interval = 16
  /\ current_frame > 0
  /\ \E i \in 1..Len(objects) : DOMAIN objects[i].keyframes # {}

\* the frame the handler of this step calls goto_frame with
ScrubTarget ==
  IF last_op' = "next_frame"
  THEN (IF current_frame + 1 >= max_frames THEN 0 ELSE current_frame + 1)
  ELSE IF last_op' = "stop_playback" THEN 0
  ELSE frame_spinbox'

C20_TicksOnlyWhilePlaying ==
  /\ [](timer.active <=> is_playing)
  /\ [][last_op' = "next_frame" => (is_playing /\ timer.active)]_vars
  /\ [][(last_op' = "toggle_playback" /\ is_playing) =>
         /\ ~is_playing'
         /\ ~timer'.active
         /\ current_frame' = current_frame
         /\ objects' = objects]_vars

\* C20 witness: playback was paused past frame 0
C20_Witness ==
  /\ last_op = "toggle_playback"
  /\ ~is_playing
  /\ ~timer.active
  /\ timer.interval > 0
  /\ current_frame > 0

\* C21: "Add Keyframe" at a cursor frame f where the selected object already
\* has a keyframe replaces that entry with the position and brightness the
\* object has: the keys of the store and every other entry are unchanged, and
\* evaluating the store at f gives the state just captured.
C21_LastWriteWins ==
  [][(/\ last_op' \in {"add_keyframe", "add_keyframe_replace"}
      /\ selected # 0
      /\ current_frame \in DOMAIN objects[selected].keyframes)
     => /\ Len(objects') = Len(objects)
        /\ DOMAIN objects'[selected].keyframes = DOMAIN objects[selected].keyframes
        /\ \A k \in DOMAIN objects[selected].keyframes :
             k # current_frame =>
               objects'[selected].keyframes[k] = objects[selected].keyframes[k]
        /\ objects'[selected].keyframes[current_frame] = Rendered(objects[selected])
        /\ get_interpolated_state(objects'[selected].keyframes, current_frame)
             = Rendered(objects[selected])
        /\ \A i \in 1..Len(objects) : i # selected => objects'[i] = objects[i]]_vars

\* C21 witness: the keyframe at frame 4 was replaced by a snapshot taken at
\* brightness 200, the other keyframes being those of the document
C21_Witness ==
  /\ last_op = "add_keyframe_replace"
  /\ selected # 0
  /\ current_frame = 4
  /\ DOMAIN objects[selected].keyframes = {1, 3, 4}
  /\ objects[selected].keyframes[4].brightness = R(200)
  /\ objects[selected].keyframes[1] = KS(0, 0, 100)
  /\ objects[selected].keyframes[3] = KS(100, 50, 0)

\* the least and the greatest of a non-empty set of rationals
RMin(S) == CHOOSE m \in S : \A v \in S : RLeq(m, v)
RMax(S) == CHOOSE m \in S : \A v \in S : RLeq(v, m)

\* C22: interpolation never overshoots: at every frame, each of x, y and
\* brightness of the state a non-empty store evaluates to lies between the
\* least and the greatest value of that field over the keyframes of the store;
\* so when every stored brightness is within 0..200, so is the evaluated one.
C22_NoOvershoot ==
  (ev # Idle /\ ev.result # Pending /\ DOMAIN ev.store # {})
  => LET xs == {ev.store[k].x : k \in DOMAIN ev.store}
         ys == {ev.store[k].y : k \in DOMAIN ev.store}
         bs == {ev.store[k].brightness : k \in DOMAIN ev.store}
     IN /\ ev.result # None
        /\ RLeq(RMin(xs), ev.result.x) /\ RLeq(ev.result.x, RMax(xs))
        /\ RLeq(RMin(ys), ev.result.y) /\ RLeq(ev.result.y, RMax(ys))
        /\ RLeq(RMin(bs), ev.result.brightness)
        /\ RLeq(ev.result.brightness, RMax(bs))
        /\ (\A v \in bs : RLeq(R(0), v) /\ RLeq(v, R(200)))
             => RLeq(R(0), ev.result.brightness) /\ RLeq(ev.result.brightness, R(200))

\* C22 witness: a frame blended from two keyframes that differ in all three
\* fields, the result lying strictly inside the range of each field
C22_Witness ==
  /\ ev # Idle
  /\ ev.result # Pending
  /\ ev.result # None
  /\ ev.frame \notin DOMAIN ev.store
  /\ LET xs == {ev.store[k].x : k \in DOMAIN ev.store}
         ys == {ev.store[k].y : k \in DOMAIN ev.store}
         bs == {ev.store[k].brightness : k \in DOMAIN ev.store}
     IN /\ ev.result.x \notin xs /\ ev.result.y \notin ys
        /\ ev.result.brightness \notin bs
        /\ RLeq(RMin(xs), ev.result.x) /\ RLeq(ev.result.x, RMax(xs))
        /\ RLeq(RMin(bs), ev.result.brightness)
        /\ RLeq(ev.result.brightness, RMax(bs))

\* C23: in every state every key of every object's keyframe store is a frame
\* of the animation, an integer k with 0 <= k < max_frames, also after a load
\* that lowers max_frames or brings its own keys, and after keyframes are
\* added following such a load.
C23_KeysAreFrames ==
  \A i \in 1..Len(objects) :
    \A k \in DOMAIN objects[i].keyframes : 0 <= k /\ k < max_frames

\* C24: the two copies of the cursor stay in step: when a drag of the playhead,
\* a frame spinbox entry, a playback tick, a stop or a load has run to
\* completion, AnimationSoftware.current_frame equals Timeline.current_frame,
\* the re-entrant chain goto_frame -> set_frame -> bar move -> on_bar_move ->
\* on_timeline_frame_changed -> spinbox -> goto_frame included.
C24_CursorCopiesAgree ==
  last_op \in {"drag", "spinbox", "next_frame", "stop_playback", "load_animation"}
  => current_frame = timeline.current_frame

\* C24 witness: a playback tick from frame 299 of a 302-frame animation, where
\* goto_frame(300) moves the bar to pixel 3000 and the bar's callback, bounded
\* by the timeline's own range, sets both copies back to 299
C24_Witness ==
  /\ last_op = "next_frame"
  /\ max_frames = 302
  /\ timeline.bar_x = 3000
  /\ current_frame = 299
  /\ timeline.current_frame = 299

====
